---- MODULE Spec2Model ----
(***************************************************************************)
(* fluent-i18n: locale resolution (set_locale / get_locale), the           *)
(* thread-local raw-mode flag, the process-wide write-once fallback locale *)
(* set by the i18n! loader declarations, and the t! lookup macro.          *)
(*                                                                         *)
(* A locale string is a tuple of one-character strings, so that parsing    *)
(* (splitting, length and character-class checks, case normalisation) is   *)
(* computed and not assumed.  Translation keys and rendered messages are   *)
(* TLA+ strings.                                                           *)
(***************************************************************************)
EXTENDS Naturals, Sequences, FiniteSets, TLC

(***************************************************************************)
(* Option<T>                                                               *)
(***************************************************************************)
None == [some |-> FALSE]
Some(v) == [some |-> TRUE, v |-> v]

(***************************************************************************)
(* Characters                                                              *)
(***************************************************************************)
Lowers == <<"a","b","c","d","e","f","g","h","i","j","k","l","m",
            "n","o","p","q","r","s","t","u","v","w","x","y","z">>
Uppers == <<"A","B","C","D","E","F","G","H","I","J","K","L","M",
            "N","O","P","Q","R","S","T","U","V","W","X","Y","Z">>
Digits == {"0","1","2","3","4","5","6","7","8","9"}

Range(f) == {f[i] : i \in DOMAIN f}
IsLower(c) == c \in Range(Lowers)
IsUpper(c) == c \in Range(Uppers)
IsAlpha(c) == IsLower(c) \/ IsUpper(c)
IsDigit(c) == c \in Digits
IsAlnum(c) == IsAlpha(c) \/ IsDigit(c)
IndexIn(c, seq) == CHOOSE i \in DOMAIN seq : seq[i] = c
ToLowerChar(c) == IF IsUpper(c) THEN Lowers[IndexIn(c, Uppers)] ELSE c
ToUpperChar(c) == IF IsLower(c) THEN Uppers[IndexIn(c, Lowers)] ELSE c
ToLower(s) == [i \in DOMAIN s |-> ToLowerChar(s[i])]
ToUpper(s) == [i \in DOMAIN s |-> ToUpperChar(s[i])]
ToTitle(s) == [i \in DOMAIN s |-> IF i = 1 THEN ToUpperChar(s[i]) ELSE ToLowerChar(s[i])]
AllAlpha(s) == \A i \in DOMAIN s : IsAlpha(s[i])
AllDigit(s) == \A i \in DOMAIN s : IsDigit(s[i])
AllAlnum(s) == \A i \in DOMAIN s : IsAlnum(s[i])

(***************************************************************************)
(* str::parse::<LanguageIdentifier>() (unic_langid), as set_locale and the *)
(* i18n! customise closure call it.  Subtags are separated by '-' or '_'.  *)
(***************************************************************************)
IsSeparator(c) == c = "-" \/ c = "_"

RECURSIVE SplitFrom(_, _, _)
SplitFrom(s, i, cur) ==
    IF i > Len(s) THEN <<cur>>
    ELSE IF IsSeparator(s[i]) THEN <<cur>> \o SplitFrom(s, i + 1, <<>>)
    ELSE SplitFrom(s, i + 1, Append(cur, s[i]))

Subtags(s) == SplitFrom(s, 1, <<>>)

\* Language: 2-3 or 5-8 ASCII letters, lower-cased; "und" is the empty language.
LanguageOk(v) == Len(v) >= 2 /\ Len(v) <= 8 /\ Len(v) # 4 /\ AllAlpha(v)
LanguageOf(v) == IF ToLower(v) = <<"u","n","d">> THEN <<>> ELSE ToLower(v)
\* Script: 4 letters, title-cased.
ScriptOk(v) == Len(v) = 4 /\ AllAlpha(v)
\* Region: 2 letters (upper-cased) or 3 digits.
RegionOk(v) == \/ Len(v) = 2 /\ AllAlpha(v)
               \/ Len(v) = 3 /\ AllDigit(v)
\* Variant: 5-8 alphanumerics, or 4 starting with a digit; lower-cased.
VariantOk(v) == /\ Len(v) >= 4 /\ Len(v) <= 8
                /\ AllAlnum(v)
                /\ (Len(v) = 4 => IsDigit(v[1]))

ParseErr(kind) == [ok |-> FALSE, source |-> kind]
ParseOk(id) == [ok |-> TRUE, id |-> id]

\* (mutant) the subtags are stored as written, without case normalisation
RECURSIVE ParseRestKeepsCase(_, _, _, _)
ParseRestKeepsCase(tags, i, pos, id) ==
    IF i > Len(tags) THEN ParseOk(id)
    ELSE LET v == tags[i] IN
         IF pos = 1 /\ ScriptOk(v)
           THEN ParseRestKeepsCase(tags, i + 1, 2, [id EXCEPT !.script = v])
         ELSE IF pos <= 2 /\ RegionOk(v)
           THEN ParseRestKeepsCase(tags, i + 1, 3, [id EXCEPT !.region = v])
         ELSE IF VariantOk(v)
           THEN ParseRestKeepsCase(tags, i + 1, 3, [id EXCEPT !.variants = @ \cup {v}])
         ELSE ParseErr("InvalidSubtag")

\* pos: 1 = a script may follow, 2 = a region may follow, 3 = variants only.
\* The variants are kept sorted and without duplicates: a set.
RECURSIVE ParseRest(_, _, _, _)
ParseRest(tags, i, pos, id) ==
    IF i > Len(tags) THEN ParseOk(id)
    ELSE LET v == tags[i] IN
         IF pos = 1 /\ ScriptOk(v)
           THEN ParseRest(tags, i + 1, 2, [id EXCEPT !.script = ToTitle(v)])
         ELSE IF pos <= 2 /\ RegionOk(v)
           THEN ParseRest(tags, i + 1, 3, [id EXCEPT !.region = ToUpper(v)])
         ELSE IF VariantOk(v)
           THEN ParseRest(tags, i + 1, 3, [id EXCEPT !.variants = @ \cup {ToLower(v)}])
         ELSE ParseErr("InvalidSubtag")

ParseLangId(s) ==
    LET tags == Subtags(s) IN
    IF ~LanguageOk(tags[1]) THEN ParseErr("InvalidLanguage")
    ELSE ParseRest(tags, 2, 1,
                   [language |-> LanguageOf(tags[1]), script |-> <<>>,
                    region |-> <<>>, variants |-> {}])

(***************************************************************************)
(* Locale strings and identifiers that occur in the repository's tests     *)
(***************************************************************************)
S_enUS  == <<"e","n","-","U","S">>
S_en_us == <<"e","n","_","u","s">>
S_frFR  == <<"f","r","-","F","R">>
S_jaJP  == <<"j","a","-","J","P">>
S_bad   == <<"?","?","?">>

LangId(lang, region) ==
    [language |-> lang, script |-> <<>>, region |-> region, variants |-> {}]
EnUS == LangId(<<"e","n">>, <<"U","S">>)
FrFR == LangId(<<"f","r">>, <<"F","R">>)
JaJP == LangId(<<"j","a">>, <<"J","P">>)

\* (mutant) another default
DefaultLocaleFrench == FrFR

\* langid!("en-US")
DEFAULT_LOCALE == EnUS

(***************************************************************************)
(* Inputs of the operations                                                *)
(***************************************************************************)
Threads == {"main", "worker"}
\* set_locale(Some(s)): the explicit strings tried
ExplicitLocales == {S_en_us, S_frFR, S_bad}
\* sys_locale::get_locale(): nothing detected, a valid or a malformed value
SysLocales == {None, Some(S_jaJP), Some(S_bad)}
Keys == {"welcome", "english-only-translation", "nonexistent-key"}
\* the four arms of t!: 1 t!(key)  2 t!(key, {..})  3 t!(L, key)  4 t!(L, key, {..})
Forms == {1, 2, 3, 4}
\* the { arg => val, .. } list given to arms 2 and 4 (a key given twice)
WelcomeArgs == << <<"name", "Alice">>, <<"name", "Orhun">> >>

(***************************************************************************)
(* Loader declarations: i18n!(dir, fallback = F) and i18n!(dir)            *)
(***************************************************************************)
Declarations == {"fallback_en", "fallback_fr", "no_fallback", "fallback_bad"}
\* TRUE for the arm with fallback = F, whose customise closure sets FALLBACK_LOCALE
SetsFallback(d) == d # "no_fallback"
\* the loader's fallback_language literal
FallbackLiteral(d) ==
    CASE d = "fallback_en" -> S_enUS
      [] d = "fallback_fr" -> S_frFR
      [] d = "no_fallback" -> S_enUS
      [] d = "fallback_bad" -> S_bad

(***************************************************************************)
(* The catalog under tests/locales, as far as the tests show it.  A        *)
(* template is a sequence of literal parts and placeables.                 *)
(***************************************************************************)
Lit(s) == [var |-> FALSE, text |-> s]
Var(n) == [var |-> TRUE, text |-> n]

AvailableLocales == {EnUS, FrFR, JaJP}

Bundle(lang) ==
    CASE lang = EnUS ->
           [k \in {"welcome", "english-only-translation"} |->
              CASE k = "welcome" -> <<Lit("Welcome, "), Var("name"), Lit("!")>>
                [] k = "english-only-translation" ->
                     <<Lit("This message only exists in English")>>]
      [] lang = FrFR ->
           [k \in {"welcome"} |->
              <<Lit("Bienvenue, "), Var("name"), Lit("!")>>]
      [] lang = JaJP ->
           \* the Japanese texts, transliterated
           [k \in {"welcome"} |->
              <<Lit("Youkoso, "), Var("name"), Lit("-san!")>>]

(***************************************************************************)
(* Arguments: args.insert(Cow::Borrowed(arg), val.to_fluent_value())       *)
(***************************************************************************)
\* impl ToFluentValue for &'static str / String: FluentValue::from
ToFluentValue(v) == [kind |-> "String", value |-> v]

NoArgs == <<>>
HashMapInsert(m, k, v) == [x \in DOMAIN m \cup {k} |-> IF x = k THEN v ELSE m[x]]

RECURSIVE BuildArgs(_, _)
BuildArgs(pairs, i) ==
    IF i = 0 THEN NoArgs
    ELSE HashMapInsert(BuildArgs(pairs, i - 1), pairs[i][1], ToFluentValue(pairs[i][2]))

(***************************************************************************)
(* fluent_templates::Loader for a static loader                            *)
(***************************************************************************)
RECURSIVE Format(_, _, _)
Format(template, args, i) ==
    IF i > Len(template) THEN ""
    ELSE LET p == template[i]
             piece == IF ~p.var THEN p.text
                      ELSE IF p.text \in DOMAIN args THEN args[p.text].value
                      ELSE "{$" \o p.text \o "}"
         IN  piece \o Format(template, args, i + 1)

LookupSingleLanguage(lang, key, args) ==
    IF lang \in AvailableLocales /\ key \in DOMAIN Bundle(lang)
    THEN Some(Format(Bundle(lang)[key], args, 1))
    ELSE None

\* (mutant) the missing-key text without the key
UnknownLocalizationNoKey(key) == "Unknown localization key"

\* The text returned for a key that no bundle tried holds.
DiagnosticPrefix == "Unknown localization key: \""
DiagnosticSuffix == "\""
UnknownLocalization(key) == DiagnosticPrefix \o key \o DiagnosticSuffix

\* Every locale string the model parses, parsed once.
LocaleStrings == ExplicitLocales \cup {S_enUS, S_jaJP} \cup {FallbackLiteral(d) : d \in Declarations}
Parsed == [s \in LocaleStrings |-> ParseLangId(s)]

\* The loader's own fallback language: fallback_language: F, parsed.
FallbackLanguage(d) == Parsed[FallbackLiteral(d)].id

\* (mutant) the default locale is tried instead of the loader's fallback language
LookupCompleteDefaultFallback(d, lang, key, args) ==
    LET own == LookupSingleLanguage(lang, key, args)
        fb  == LookupSingleLanguage(DEFAULT_LOCALE, key, args)
    IN  IF own.some THEN own.v
        ELSE IF lang # DEFAULT_LOCALE /\ fb.some THEN fb.v
        ELSE UnknownLocalization(key)

\* Loader::lookup_complete: the requested language, then the loader's fallback
\* language, then the missing-key text.
LookupComplete(d, lang, key, args) ==
    LET own == LookupSingleLanguage(lang, key, args)
        fb  == LookupSingleLanguage(FallbackLanguage(d), key, args)
    IN  IF own.some THEN own.v
        ELSE IF lang # FallbackLanguage(d) /\ fb.some THEN fb.v
        ELSE UnknownLocalization(key)

(***************************************************************************)
(* State                                                                   *)
(***************************************************************************)
VARIABLES
    CURRENT_LOCALE,     \* thread_local: per thread, Option<LanguageIdentifier>
    RAW_MODE_ENABLED,   \* thread_local: per thread, bool
    FALLBACK_LOCALE,    \* OnceLock<LanguageIdentifier>, process-wide
    LOCALES,            \* per declaration: is the lazy static loader built?
    last                \* the most recent call: who, what, with what, and its result

vars == <<CURRENT_LOCALE, RAW_MODE_ENABLED, FALLBACK_LOCALE, LOCALES, last>>

Init ==
    /\ CURRENT_LOCALE = [th \in Threads |-> None]
    /\ RAW_MODE_ENABLED = [th \in Threads |-> FALSE]
    /\ FALLBACK_LOCALE = None
    /\ LOCALES = [d \in Declarations |-> "uninit"]
    /\ last = [op |-> "start"]

(***************************************************************************)
(* OnceLock                                                                *)
(***************************************************************************)
\* OnceLock::get
OnceLockGet(cell) == cell

\* (mutant) a cell that takes every value offered
OnceLockSetOverwrites(cell, v) == [cell |-> Some(v), ok |-> TRUE]

\* OnceLock::set: stores only into an empty cell, else hands the value back
OnceLockSet(cell, v) ==
    IF cell.some THEN [cell |-> cell, ok |-> FALSE]
    ELSE [cell |-> Some(v), ok |-> TRUE]

(***************************************************************************)
(* locale.rs                                                               *)
(***************************************************************************)
Ok == [ok |-> TRUE]
LocaleParseError(loc, source) ==
    [ok |-> FALSE, error |-> "LocaleParseError", locale |-> loc, source |-> source]

\* (mutant) a malformed detected locale is skipped, not reported
ResolveLangIdSkipsMalformed(locale, sys, fallback) ==
    IF locale.some THEN
        LET r == Parsed[locale.v] IN
        IF r.ok THEN r ELSE LocaleParseError(locale.v, r.source)
    ELSE IF sys.some /\ Parsed[sys.v].ok THEN Parsed[sys.v]
    ELSE IF OnceLockGet(fallback).some THEN ParseOk(OnceLockGet(fallback).v)
    ELSE ParseOk(DEFAULT_LOCALE)

\* (mutant) the fallback is consulted before the detected locale
ResolveLangIdFallbackFirst(locale, sys, fallback) ==
    IF locale.some THEN
        LET r == Parsed[locale.v] IN
        IF r.ok THEN r ELSE LocaleParseError(locale.v, r.source)
    ELSE IF OnceLockGet(fallback).some THEN ParseOk(OnceLockGet(fallback).v)
    ELSE IF sys.some THEN
        LET r == Parsed[sys.v] IN
        IF r.ok THEN r ELSE LocaleParseError(sys.v, r.source)
    ELSE ParseOk(DEFAULT_LOCALE)

\* The langid chosen by set_locale, or the error it returns.
\* locale: the argument; sys: what sys_locale::get_locale() detects.
ResolveLangId(locale, sys, fallback) ==
    IF locale.some THEN
        LET r == Parsed[locale.v] IN
        IF r.ok THEN r ELSE LocaleParseError(locale.v, r.source)
    ELSE IF sys.some THEN
        LET r == Parsed[sys.v] IN
        IF r.ok THEN r ELSE LocaleParseError(sys.v, r.source)
    ELSE IF OnceLockGet(fallback).some THEN ParseOk(OnceLockGet(fallback).v)
    ELSE ParseOk(DEFAULT_LOCALE)

\* (mutant) the resolved locale is stored for every thread
set_locale_AllThreads(th, locale, sys) ==
    LET r == ResolveLangId(locale, sys, FALLBACK_LOCALE) IN
    /\ IF r.ok
         THEN CURRENT_LOCALE' = [x \in Threads |-> Some(r.id)]
         ELSE UNCHANGED CURRENT_LOCALE
    /\ last' = [op |-> "set_locale", t |-> th, locale |-> locale, sys |-> sys,
                res |-> IF r.ok THEN Ok ELSE r]
    /\ UNCHANGED <<RAW_MODE_ENABLED, FALLBACK_LOCALE, LOCALES>>

set_locale(th, locale, sys) ==
    LET r == ResolveLangId(locale, sys, FALLBACK_LOCALE) IN
    /\ IF r.ok
         THEN CURRENT_LOCALE' = [CURRENT_LOCALE EXCEPT ![th] = Some(r.id)]
         ELSE UNCHANGED CURRENT_LOCALE
    /\ last' = [op |-> "set_locale", t |-> th, locale |-> locale, sys |-> sys,
                res |-> IF r.ok THEN Ok ELSE r]
    /\ UNCHANGED <<RAW_MODE_ENABLED, FALLBACK_LOCALE, LOCALES>>

\* (mutant) get_locale that skips FALLBACK_LOCALE
GetLocaleNoFallback(cur, fallback, th) ==
    IF cur[th].some THEN cur[th].v ELSE DEFAULT_LOCALE

\* the value get_locale returns on thread th
GetLocale(cur, fallback, th) ==
    IF cur[th].some THEN cur[th].v
    ELSE IF OnceLockGet(fallback).some THEN OnceLockGet(fallback).v
    ELSE DEFAULT_LOCALE

get_locale(th) ==
    /\ last' = [op |-> "get_locale", t |-> th,
                res |-> GetLocale(CURRENT_LOCALE, FALLBACK_LOCALE, th)]
    /\ UNCHANGED <<CURRENT_LOCALE, RAW_MODE_ENABLED, FALLBACK_LOCALE, LOCALES>>

set_raw_mode(th, enabled) ==
    /\ RAW_MODE_ENABLED' = [RAW_MODE_ENABLED EXCEPT ![th] = enabled]
    /\ last' = [op |-> "set_raw_mode", t |-> th, enabled |-> enabled]
    /\ UNCHANGED <<CURRENT_LOCALE, FALLBACK_LOCALE, LOCALES>>

(***************************************************************************)
(* macros.rs: i18n!                                                        *)
(***************************************************************************)
\* (mutant) a customise closure that parses F but never offers it to FALLBACK_LOCALE
CustomiseSkipsFallback(cell, d) ==
    IF ~SetsFallback(d) THEN [cell |-> cell, panic |-> FALSE]
    ELSE [cell |-> cell, panic |-> ~Parsed[FallbackLiteral(d)].ok]

\* One run of the customise closure.  With fallback = F it parses F (expect:
\* a malformed F panics) and offers it to FALLBACK_LOCALE; .ok() drops a
\* refusal.  Without a fallback it only configures the bundle.
Customise(cell, d) ==
    IF ~SetsFallback(d) THEN [cell |-> cell, panic |-> FALSE]
    ELSE IF ~Parsed[FallbackLiteral(d)].ok THEN [cell |-> cell, panic |-> TRUE]
    ELSE [cell |-> OnceLockSet(cell, Parsed[FallbackLiteral(d)].id).cell,
          panic |-> FALSE]

\* The lazy static's initialiser: the closure runs for each of the n bundles
\* still to build; a panic ends it.
RECURSIVE BuildBundles(_, _, _)
BuildBundles(cell, d, n) ==
    IF n = 0 THEN [cell |-> cell, panic |-> FALSE]
    ELSE LET c == Customise(cell, d) IN
         IF c.panic THEN c ELSE BuildBundles(c.cell, d, n - 1)

\* Dereferencing LOCALES: built on first use, as is afterwards.
ForceLoader(status, cell, d) ==
    IF status = "ready" THEN [cell |-> cell, panic |-> FALSE]
    ELSE BuildBundles(cell, d, Cardinality(AvailableLocales))

(***************************************************************************)
(* macros.rs: t!                                                           *)
(***************************************************************************)
\* The string a t! arm evaluates to on a thread whose get_locale() is lang:
\* arms 1 and 3 call lookup, arms 2 and 4 build the argument map and call
\* lookup_with_args; d is crate::LOCALES (arms 1, 2) or the loader given.
TMacro(form, d, lang, key) ==
    IF form \in {2, 4}
    THEN LookupComplete(d, lang, key, BuildArgs(WelcomeArgs, Len(WelcomeArgs)))
    ELSE LookupComplete(d, lang, key, NoArgs)

t(th, form, d, key) ==
    LET f == ForceLoader(LOCALES[d], FALLBACK_LOCALE, d) IN
    IF f.panic
    THEN /\ last' = [op |-> "t", t |-> th, form |-> form, d |-> d, key |-> key,
                     panicked |-> TRUE]
         /\ UNCHANGED <<CURRENT_LOCALE, RAW_MODE_ENABLED, FALLBACK_LOCALE, LOCALES>>
    ELSE /\ LOCALES' = [LOCALES EXCEPT ![d] = "ready"]
         /\ FALLBACK_LOCALE' = f.cell
         /\ last' = [op |-> "t", t |-> th, form |-> form, d |-> d, key |-> key,
                     panicked |-> FALSE,
                     res |-> TMacro(form, d, GetLocale(CURRENT_LOCALE, f.cell, th), key)]
         /\ UNCHANGED <<CURRENT_LOCALE, RAW_MODE_ENABLED>>

(***************************************************************************)
(* Specification                                                           *)
(***************************************************************************)
Next ==
    \/ \E th \in Threads, s \in ExplicitLocales, sys \in SysLocales :
          set_locale(th, Some(s), sys)
    \/ \E th \in Threads, sys \in SysLocales : set_locale(th, None, sys)
    \/ \E th \in Threads : get_locale(th)
    \/ \E th \in Threads, enabled \in BOOLEAN : set_raw_mode(th, enabled)
    \/ \E th \in Threads, form \in Forms, d \in Declarations, key \in Keys :
          t(th, form, d, key)

Spec == Init /\ [][Next]_vars

TypeOK ==
    /\ \A th \in Threads : CURRENT_LOCALE[th] \in {None} \cup {Some(l) : l \in AvailableLocales}
    /\ RAW_MODE_ENABLED \in [Threads -> BOOLEAN]
    /\ FALLBACK_LOCALE \in {None, Some(EnUS), Some(FrFR)}
    /\ LOCALES \in [Declarations -> {"uninit", "ready"}]

(***************************************************************************)
(* What the claims are checked against: the strings of the inputs, told    *)
(* apart by hand and not by the parser.                                    *)
(***************************************************************************)
WellFormed == {S_enUS, S_en_us, S_frFR, S_jaJP}
Malformed == {S_bad}
IdOf(s) == CASE s \in {S_enUS, S_en_us} -> EnUS
             [] s = S_frFR -> FrFR
             [] s = S_jaJP -> JaJP

IsCall(l, op) == l.op = op
\* the string a set_locale call parses, if it parses one
ParsesString(l) == l.locale.some \/ l.sys.some
StringParsed(l) == IF l.locale.some THEN l.locale.v ELSE l.sys.v

(***************************************************************************)
(* C1: while the calling thread's raw-mode flag is true, every t! lookup   *)
(* returns the key itself, for every key, locale and later set_locale.     *)
(* t! never reads RAW_MODE_ENABLED, so this is violated.                   *)
(***************************************************************************)
C1_RawModeReturnsKey ==
    (IsCall(last, "t") /\ ~last.panicked /\ RAW_MODE_ENABLED[last.t])
        => last.res = last.key

(***************************************************************************)
(* C2: a set_locale that parses a malformed string (explicit or detected)  *)
(* returns LocaleParseError carrying that string, uses no fallback or      *)
(* default, and leaves the thread's stored locale and get_locale as they   *)
(* were.                                                                   *)
(***************************************************************************)
C2_MalformedIsHardError ==
    [][ (IsCall(last', "set_locale") /\ ParsesString(last')
            /\ StringParsed(last') \in Malformed)
        => /\ ~last'.res.ok
           /\ last'.res.error = "LocaleParseError"
           /\ last'.res.locale = StringParsed(last')
           /\ CURRENT_LOCALE' = CURRENT_LOCALE
           /\ GetLocale(CURRENT_LOCALE', FALLBACK_LOCALE', last'.t)
                = GetLocale(CURRENT_LOCALE, FALLBACK_LOCALE, last'.t) ]_vars

\* a detected malformed locale is refused on a thread that has a stored
\* locale, with FALLBACK_LOCALE set
C2_Witness ==
    /\ IsCall(last, "set_locale") /\ ~last.locale.some
    /\ last.sys = Some(S_bad) /\ ~last.res.ok
    /\ FALLBACK_LOCALE.some
    /\ CURRENT_LOCALE[last.t] = Some(JaJP)

(***************************************************************************)
(* C3: set_locale takes the first source present, in the order explicit    *)
(* argument, detected system locale, FALLBACK_LOCALE, default; a source    *)
(* that is present is the one used, also when it is malformed (then the    *)
(* call fails and nothing is stored).                                      *)
(***************************************************************************)
C3_PriorityOrder ==
    [][ IsCall(last', "set_locale") =>
          LET l == last' IN
          IF ParsesString(l)
          THEN IF StringParsed(l) \in WellFormed
               THEN l.res.ok /\ CURRENT_LOCALE'[l.t] = Some(IdOf(StringParsed(l)))
               ELSE ~l.res.ok /\ CURRENT_LOCALE' = CURRENT_LOCALE
          ELSE /\ l.res.ok
               /\ CURRENT_LOCALE'[l.t] =
                    IF FALLBACK_LOCALE.some THEN FALLBACK_LOCALE
                    ELSE Some(EnUS) ]_vars

\* the detected locale wins over a FALLBACK_LOCALE that is set
C3_Witness ==
    /\ IsCall(last, "set_locale") /\ ~last.locale.some
    /\ last.sys = Some(S_jaJP)
    /\ FALLBACK_LOCALE = Some(FrFR)
    /\ CURRENT_LOCALE[last.t] = Some(JaJP)

(***************************************************************************)
(* C4, as stated: with no explicit locale, no valid detected locale and no *)
(* FALLBACK_LOCALE, set_locale(None) succeeds with "en-US".  A detected    *)
(* locale that is present and malformed is "no valid signal", and the call *)
(* fails.                                                                  *)
(***************************************************************************)
C4_NoValidSignalGivesDefault ==
    (/\ IsCall(last, "set_locale") /\ ~last.locale.some
     /\ (~last.sys.some \/ last.sys.v \in Malformed)
     /\ ~FALLBACK_LOCALE.some)
        => /\ last.res.ok
           /\ GetLocale(CURRENT_LOCALE, FALLBACK_LOCALE, last.t) = EnUS

(***************************************************************************)
(* C4, amended: with no explicit locale, no detected locale at all and no  *)
(* FALLBACK_LOCALE, set_locale(None) succeeds and get_locale is "en-US".   *)
(***************************************************************************)
C4_NothingDetectedGivesDefault ==
    (/\ IsCall(last, "set_locale") /\ ~last.locale.some
     /\ ~last.sys.some
     /\ ~FALLBACK_LOCALE.some)
        => /\ last.res.ok
           /\ CURRENT_LOCALE[last.t] = Some(EnUS)
           /\ GetLocale(CURRENT_LOCALE, FALLBACK_LOCALE, last.t) = EnUS

C4_Witness ==
    /\ IsCall(last, "set_locale") /\ ~last.locale.some /\ ~last.sys.some
    /\ ~FALLBACK_LOCALE.some
    /\ last.res.ok

(***************************************************************************)
(* C5: FALLBACK_LOCALE is write-once: once it holds X it holds X after     *)
(* every step; a loader declared with another fallback Y is built without  *)
(* error and changes nothing; a resolution that reaches the fallback, and  *)
(* get_locale on a thread with no stored locale, report X.                 *)
(***************************************************************************)
C5_FallbackWriteOnce ==
    [][ FALLBACK_LOCALE.some =>
          /\ FALLBACK_LOCALE' = FALLBACK_LOCALE
          /\ (IsCall(last', "t") /\ FallbackLiteral(last'.d) \in WellFormed)
                => ~last'.panicked
          /\ (IsCall(last', "set_locale") /\ ~ParsesString(last'))
                => CURRENT_LOCALE'[last'.t] = FALLBACK_LOCALE
          /\ (IsCall(last', "get_locale") /\ ~CURRENT_LOCALE[last'.t].some)
                => last'.res = FALLBACK_LOCALE.v ]_vars

\* the loader with fallback "fr-FR" is built after "en-US" was stored
C5_Witness ==
    /\ IsCall(last, "t") /\ last.d = "fallback_fr" /\ ~last.panicked
    /\ FALLBACK_LOCALE = Some(EnUS)
    /\ LOCALES["fallback_en"] = "ready" /\ LOCALES["fallback_fr"] = "ready"

\* every lookup a thread can make, by the locale get_locale gives it
TextsIn ==
    [lang \in AvailableLocales |->
       [c \in Forms \X (Declarations \ {"fallback_bad"}) \X Keys |->
          TMacro(c[1], c[2], lang, c[3])]]
\* what thread th observes: its get_locale, and every lookup it can make
Observes(cur, fallback, th) ==
    [locale |-> GetLocale(cur, fallback, th),
     texts |-> TextsIn[GetLocale(cur, fallback, th)]]

(***************************************************************************)
(* C6: the stored locale and the raw-mode flag are per thread: a           *)
(* set_locale or set_raw_mode call on thread a changes neither the stored  *)
(* locale, the flag, get_locale nor any lookup of another thread b.        *)
(***************************************************************************)
C6_ThreadIsolation ==
    [][ \A a \in Threads :
          (last'.op \in {"set_locale", "set_raw_mode"} /\ last'.t = a)
          => \A b \in Threads \ {a} :
               /\ CURRENT_LOCALE'[b] = CURRENT_LOCALE[b]
               /\ RAW_MODE_ENABLED'[b] = RAW_MODE_ENABLED[b]
               /\ Observes(CURRENT_LOCALE', FALLBACK_LOCALE', b)
                    = Observes(CURRENT_LOCALE, FALLBACK_LOCALE, b) ]_vars

\* the worker sets "fr-FR" while main keeps its own locale and flag
C6_Witness ==
    /\ IsCall(last, "set_locale") /\ last.t = "worker"
    /\ last.locale = Some(S_frFR)
    /\ CURRENT_LOCALE["worker"] = Some(FrFR)
    /\ CURRENT_LOCALE["main"] = Some(JaJP)
    /\ RAW_MODE_ENABLED["main"] /\ ~RAW_MODE_ENABLED["worker"]

\* the locale a t! call looked up with
LookedUpIn(l) == GetLocale(CURRENT_LOCALE, FALLBACK_LOCALE, l.t)
\* keys with no entry in the looked-up locale nor in the loader's fallback
MissingEverywhere(l) ==
    \/ l.key = "nonexistent-key"
    \/ /\ l.key = "english-only-translation"
       /\ LookedUpIn(l) # EnUS
       /\ l.d = "fallback_fr"

C8_CatalogFallback ==
    (IsCall(last, "t") /\ ~last.panicked /\ ~RAW_MODE_ENABLED[last.t]
        /\ last.key = "english-only-translation"
        /\ LookedUpIn(last) \in {FrFR, JaJP})
    => IF last.d \in {"fallback_en", "no_fallback"}
       THEN last.res = "This message only exists in English"
       ELSE last.res = DiagnosticPrefix \o last.key \o DiagnosticSuffix

\* the process-wide fallback is "fr-FR", the loader's is "en-US": English text
C8_Witness ==
    /\ IsCall(last, "t") /\ last.d = "fallback_en" /\ ~last.panicked
    /\ last.key = "english-only-translation"
    /\ FALLBACK_LOCALE = Some(FrFR)
    /\ ~CURRENT_LOCALE[last.t].some
    /\ ~RAW_MODE_ENABLED[last.t]
    /\ last.res = "This message only exists in English"

(***************************************************************************)
(* C9: get_locale returns the thread's stored locale if the thread has had *)
(* a successful set_locale (a stored locale appears only by one, and stays)*)
(* otherwise FALLBACK_LOCALE if set at the call, otherwise "en-US".        *)
(***************************************************************************)
C9_GetLocale ==
    [][ /\ IsCall(last', "get_locale") =>
             last'.res = IF CURRENT_LOCALE[last'.t].some THEN CURRENT_LOCALE[last'.t].v
                         ELSE IF FALLBACK_LOCALE.some THEN FALLBACK_LOCALE.v
                         ELSE EnUS
        /\ \A th \in Threads :
             /\ CURRENT_LOCALE[th].some => CURRENT_LOCALE'[th].some
             /\ (~CURRENT_LOCALE[th].some /\ CURRENT_LOCALE'[th].some)
                  => (IsCall(last', "set_locale") /\ last'.t = th /\ last'.res.ok) ]_vars

\* no stored locale on the thread, FALLBACK_LOCALE is "fr-FR"
C9_Witness ==
    /\ IsCall(last, "get_locale")
    /\ ~CURRENT_LOCALE[last.t].some
    /\ FALLBACK_LOCALE = Some(FrFR)
    /\ last.res = FrFR

(***************************************************************************)
(* C10: set_locale(Some(s)) with a valid s succeeds and get_locale then    *)
(* returns the identifier parsed from s; the stored locale of a thread     *)
(* changes only by a successful set_locale on that thread: not by a failed *)
(* one, set_raw_mode, a lookup, a write to FALLBACK_LOCALE or another      *)
(* thread.                                                                 *)
(***************************************************************************)
C10_StoredLocale ==
    [][ \A th \in Threads :
          IF IsCall(last', "set_locale") /\ last'.t = th
          THEN IF last'.locale.some /\ last'.locale.v \in WellFormed
               THEN /\ last'.res.ok
                    /\ GetLocale(CURRENT_LOCALE', FALLBACK_LOCALE', th)
                         = IdOf(last'.locale.v)
               ELSE IF last'.res.ok
               THEN /\ CURRENT_LOCALE'[th].some
                    /\ GetLocale(CURRENT_LOCALE', FALLBACK_LOCALE', th)
                         = CURRENT_LOCALE'[th].v
               ELSE CURRENT_LOCALE'[th] = CURRENT_LOCALE[th]
          ELSE CURRENT_LOCALE'[th] = CURRENT_LOCALE[th] ]_vars

\* "en_us" is stored as en-US
C10_Witness ==
    /\ IsCall(last, "set_locale") /\ last.t = "main" /\ last.res.ok
    /\ last.locale = Some(S_en_us)
    /\ CURRENT_LOCALE["main"] = Some(EnUS)
    /\ FALLBACK_LOCALE = Some(FrFR)
    /\ RAW_MODE_ENABLED["main"]

(***************************************************************************)
(* C11: no entry point that takes a locale string panics on a malformed    *)
(* one: set_locale with a malformed explicit or detected string ends in    *)
(* Err, and so does the fallback literal given to i18n!.  The customise    *)
(* closure of i18n! parses the literal with expect, so the first use of a  *)
(* loader declared with a malformed fallback panics: this is violated.     *)
(***************************************************************************)
C11_NoPanicOnMalformed ==
    /\ (IsCall(last, "set_locale") /\ ParsesString(last)
            /\ StringParsed(last) \in Malformed)
          => (~last.res.ok /\ last.res.error = "LocaleParseError")
    /\ (IsCall(last, "t") /\ FallbackLiteral(last.d) \in Malformed)
          => ~last.panicked

(***************************************************************************)
(* value.rs: ToFluentValue for host values.  A host value is a String, an  *)
(* integer, a PathBuf (a sequence of units, each a character or a byte     *)
(* that is not valid UTF-8) or an Option of a host value.                  *)
(***************************************************************************)
MaxLen == 3
MaxNum == 2
MaxDepth == 2

HostChars == {"a", "/"}
InvalidByte == "<FF>"
REPLACEMENT_CHARACTER == "<U+FFFD>"

RECURSIVE SeqsUpTo(_, _)
SeqsUpTo(A, n) ==
    IF n = 0 THEN {<<>>}
    ELSE LET r == SeqsUpTo(A, n - 1) IN r \cup {Append(q, a) : q \in r, a \in A}

RECURSIVE Concat(_)
Concat(q) == IF q = <<>> THEN "" ELSE Head(q) \o Concat(Tail(q))

HostString(x) == [ty |-> "String", str |-> x]
HostInt(n) == [ty |-> "i32", int |-> n]
HostPathBuf(units) == [ty |-> "PathBuf", units |-> units]

HostBase ==
    {HostString(Concat(q)) : q \in SeqsUpTo(HostChars, MaxLen)}
    \cup {HostInt(n) : n \in 0..MaxNum}
    \cup {HostPathBuf(q) : q \in SeqsUpTo(HostChars \cup {InvalidByte}, MaxLen)}

RECURSIVE HostOptions(_)
HostOptions(depth) ==
    IF depth = 0 THEN HostBase
    ELSE LET inner == HostOptions(depth - 1) IN
         HostBase \cup {None} \cup {Some(v) : v \in inner}

HostValues == HostOptions(MaxDepth)

FluentNumber(n) == [kind |-> "Number", number |-> n]
FluentNone == [kind |-> "None"]

\* Path::to_string_lossy: invalid sequences become U+FFFD, nothing is refused
RECURSIVE to_string_lossy(_)
to_string_lossy(units) ==
    IF units = <<>> THEN ""
    ELSE (IF Head(units) = InvalidByte THEN REPLACEMENT_CHARACTER ELSE Head(units))
            \o to_string_lossy(Tail(units))

IsOption(v) == "some" \in DOMAIN v

\* (mutant) an absent optional is converted like an empty string
RECURSIVE to_fluent_value_NoneAsEmpty(_)
to_fluent_value_NoneAsEmpty(v) ==
    IF IsOption(v)
    THEN IF v.some THEN to_fluent_value_NoneAsEmpty(v.v) ELSE ToFluentValue("")
    ELSE CASE v.ty = "String" -> ToFluentValue(v.str)
           [] v.ty = "i32" -> FluentNumber(v.int)
           [] v.ty = "PathBuf" -> ToFluentValue(to_string_lossy(v.units))

\* the impls of ToFluentValue: Option<T>, Path/PathBuf, and FluentValue::from
RECURSIVE to_fluent_value(_)
to_fluent_value(v) ==
    IF IsOption(v)
    THEN IF v.some THEN to_fluent_value(v.v) ELSE FluentNone
    ELSE CASE v.ty = "String" -> ToFluentValue(v.str)
           [] v.ty = "i32" -> FluentNumber(v.int)
           [] v.ty = "PathBuf" -> ToFluentValue(to_string_lossy(v.units))

\* one conversion of an argument value, as the argument arms of t! make it
ConvertArg(v) ==
    /\ last' = [op |-> "to_fluent_value", input |-> v, res |-> to_fluent_value(v)]
    /\ UNCHANGED <<CURRENT_LOCALE, RAW_MODE_ENABLED, FALLBACK_LOCALE, LOCALES>>

NextValue == \E v \in HostValues : ConvertArg(v)

SpecValue == Init /\ [][NextValue]_vars

FluentValues ==
    {FluentNone} \cup {FluentNumber(n) : n \in 0..MaxNum}
    \cup {ToFluentValue(Concat(q)) :
            q \in SeqsUpTo(HostChars \cup {REPLACEMENT_CHARACTER}, MaxLen)}

(***************************************************************************)
(* C12: converting an absent optional gives FluentValue::None, which is    *)
(* not what the empty string converts to; converting Some(v) gives exactly *)
(* what converting v gives (a String argument its own text, a path its     *)
(* lossy text); every conversion yields a FluentValue.                     *)
(***************************************************************************)
C12_OptionCoercion ==
    IsCall(last, "to_fluent_value") =>
      /\ last.res \in FluentValues
      /\ last.input = None =>
            /\ last.res = [kind |-> "None"]
            /\ last.res # to_fluent_value(HostString(""))
            /\ to_fluent_value(HostString("")) = [kind |-> "String", value |-> ""]
      /\ (IsOption(last.input) /\ last.input.some) =>
            /\ last.res = to_fluent_value(last.input.v)
            /\ ~IsOption(last.input.v) =>
                  last.res = CASE last.input.v.ty = "String" ->
                                    [kind |-> "String", value |-> last.input.v.str]
                               [] last.input.v.ty = "i32" ->
                                    [kind |-> "Number", number |-> last.input.v.int]
                               [] last.input.v.ty = "PathBuf" ->
                                    [kind |-> "String",
                                     value |-> to_string_lossy(last.input.v.units)]
            /\ last.input.v = None => last.res = [kind |-> "None"]

\* Some(None) has been converted: the inner absence is what comes out
C12_Witness ==
    /\ IsCall(last, "to_fluent_value")
    /\ last.input = Some(None)
    /\ last.res = [kind |-> "None"]

\* the declarations with fallback = F whose loader has been built
ReadyWithFallback(locales) ==
    {d \in Declarations : SetsFallback(d) /\ locales[d] = "ready"}

====
